---- MODULE Spec2Model ----
(***************************************************************************)
(* The spinmouse recording pipeline (src/src/acquire.py): the acquisition  *)
(* thread (acquire_images), the storage thread (save_images), the display  *)
(* thread (AcquireGui) and the coordinator (run_experiment_cli /           *)
(* run_experiment_gui), with the camera wrapper of src/src/camera.py and   *)
(* the frame ledger FrameCounter; and the setup phase that precedes the    *)
(* recording (src/src/setup.py): setup_experiment, its SetupGUI and the    *)
(* preview acquisition thread, with Camera.update_image_offset.            *)
(***************************************************************************)
EXTENDS Integers, Sequences, FiniteSets, TLC

\* ------------------------------------------------------------------ bounds
\* Frames the device produces during one run (valid, incomplete or failing).
MaxFrames == 3
\* Calls of FrameCounter.update in the ledger-only specification.
MaxUpdates == 3
\* Largest frame id passed to FrameCounter.update in the ledger-only specification.
MaxLedgerId == 3
\* Largest queue length passed to FrameCounter.update in the ledger-only specification.
MaxQueueLen == 1
\* Frames the device produces during one setup preview.
MaxPreviewFrames == 11
\* Largest Max of an offset node, largest Increment, largest distance of a click
\* from the centre, in the specification of update_image_offset.
MaxOffset == 4
MaxIncrement == 2
MaxDelta == 3

VARIABLES
    acquisition_complete_event, \* threading.Event: the shared stop signal
    images_queue,               \* deque([]): the transfer queue
    display_image_queue,        \* deque([], maxlen=1): the display tee (GUI mode)
    use_gui,                    \* TRUE: run_experiment_gui, FALSE: run_experiment_cli
    camera_acquiring_flag,      \* Camera._camera_acquiring_flag
    cam_streaming,              \* the device is between BeginAcquisition and EndAcquisition
    trigger_mode,               \* cam.TriggerMode: "unset", "On", "Off"
    chunk_data,                 \* ChunkModeActive on the device
    device_next_id,             \* the frame id the device gives its next frame
    device_frames,              \* frames the device has produced in this run
    acq_pc, acq_result,         \* acquire_images: position and outcome
    save_pc, save_result,       \* save_images: position and outcome
    new_image,                  \* save_images: the frame popped in this iteration
    frame_counter,              \* save_images: the FrameCounter
    video, video_open,          \* the AVI file: frames written, writer not yet released
    log, log_open,              \* the CSV file: rows written, file not yet closed
    gui_pc, shown,              \* AcquireGui: position, the sample on screen
    coord_pc, run_result,       \* run_experiment_*: position, returned value
    enqueued,                   \* history: frames appended to images_queue
    queue_at_stop,              \* history: images_queue when the stop signal was first set
    delivered_at_stop,          \* history: Len(enqueued) when the stop signal was first set
    update_ids,                 \* history: frame ids passed to FrameCounter.update
    depth_at_pop,               \* history: len(images_queue) right after the last popleft
    last_fetch,                 \* history: how the last GetNextImage call ended
    incomplete_ids,             \* history: ids of the frames the device flagged incomplete
    end_acquisition_called,     \* history: acquire_images called camera.end_acquisition()
    popped,                     \* history: the frames popleft has returned, in order
    chunk_data_error,           \* history: GetChunkData/GetFrameID/GetTimestamp raised
    images_queue_maxlen,        \* maxlen of the transfer / preview deque: None or <<n>>
    acq_camera_trigger_mode,    \* acquire_images: its camera_trigger_mode argument
    setup_pc,                   \* setup_experiment and its SetupGUI: position
    continue_experiment,        \* SetupGUI.continue_experiment
    setup_result,               \* setup_experiment: returned value
    OffsetX, OffsetY,           \* camera nodes: [Value, Min, Max, Increment]
    desired_offsetx,            \* update_image_offset: locals of lines 218-219
    desired_offsety,
    new_offsetx, new_offsety,   \* update_image_offset: locals of lines 234-235
    offset_written_acquiring,   \* history: an offset was written with the flag True
    unguarded_device_call       \* history: BeginAcquisition was issued with the flag True,
                                \* or EndAcquisition with the flag False

sharedVars == <<acquisition_complete_event, images_queue, display_image_queue, use_gui>>
camVars == <<camera_acquiring_flag, cam_streaming, trigger_mode, chunk_data,
             device_next_id, device_frames>>
acqVars == <<acq_pc, acq_result>>
saveVars == <<save_pc, save_result, new_image, frame_counter, video, video_open,
              log, log_open>>
guiVars == <<gui_pc, shown>>
coordVars == <<coord_pc, run_result>>
stopHist == <<queue_at_stop, delivered_at_stop>>
acqHist == <<last_fetch, incomplete_ids, end_acquisition_called>>
histVars == <<enqueued, stopHist, update_ids, depth_at_pop, acqHist, popped,
              chunk_data_error>>
argVars == <<images_queue_maxlen, acq_camera_trigger_mode>>
offsetVars == <<OffsetX, OffsetY, desired_offsetx, desired_offsety, new_offsetx,
                new_offsety, offset_written_acquiring>>
setupVars == <<setup_pc, continue_experiment, setup_result, offsetVars>>
deviceHist == <<unguarded_device_call>>
vars == <<sharedVars, camVars, acqVars, saveVars, guiVars, coordVars, histVars,
          argVars, setupVars, deviceHist>>

\* ------------------------------------------------------------ FrameCounter
\* Python's None for last_frameid is the empty tuple; an id x is <<x>>.
None == <<>>

\* FrameCounter.__init__
FrameCounter_init ==
    [acquired |-> 0, buffered |-> 0, dropped |-> 0, last_frameid |-> None]

\* Faulty variants of FrameCounter.update, against which the ledger properties are
\* tested.  "dropped = ..." for "dropped += ...":
FrameCounter_update_assign(fc, image_queue_length, frameid) ==
    [acquired |-> fc.acquired + 1,
     buffered |-> image_queue_length,
     dropped |-> IF fc.last_frameid = None
                 THEN fc.dropped
                 ELSE frameid - fc.last_frameid[1] - 1,
     last_frameid |-> <<frameid>>]

\* last_frameid starting at 0 instead of None, so the first frame counts drops:
FrameCounter_update_no_none(fc, image_queue_length, frameid) ==
    [acquired |-> fc.acquired + 1,
     buffered |-> image_queue_length,
     dropped |-> IF fc.last_frameid = None
                 THEN fc.dropped + (frameid - 0 - 1)
                 ELSE fc.dropped + (frameid - fc.last_frameid[1] - 1),
     last_frameid |-> <<frameid>>]

\* the "- 1" forgotten:
FrameCounter_update_no_minus_one(fc, image_queue_length, frameid) ==
    [acquired |-> fc.acquired + 1,
     buffered |-> image_queue_length,
     dropped |-> IF fc.last_frameid = None
                 THEN fc.dropped
                 ELSE fc.dropped + (frameid - fc.last_frameid[1]),
     last_frameid |-> <<frameid>>]

\* the operands of the subtraction swapped:
FrameCounter_update_swapped(fc, image_queue_length, frameid) ==
    [acquired |-> fc.acquired + 1,
     buffered |-> image_queue_length,
     dropped |-> IF fc.last_frameid = None
                 THEN fc.dropped
                 ELSE fc.dropped + (fc.last_frameid[1] - frameid - 1),
     last_frameid |-> <<frameid>>]

\* the absolute value of the difference of the ids:
FrameCounter_update_abs(fc, image_queue_length, frameid) ==
    [acquired |-> fc.acquired + 1,
     buffered |-> image_queue_length,
     dropped |-> IF fc.last_frameid = None
                 THEN fc.dropped
                 ELSE IF frameid >= fc.last_frameid[1]
                      THEN fc.dropped + (frameid - fc.last_frameid[1] - 1)
                      ELSE fc.dropped + (fc.last_frameid[1] - frameid - 1),
     last_frameid |-> <<frameid>>]

\* buffered accumulated ("+=") instead of overwritten:
FrameCounter_update_accumulate(fc, image_queue_length, frameid) ==
    [acquired |-> fc.acquired + 1,
     buffered |-> fc.buffered + image_queue_length,
     dropped |-> IF fc.last_frameid = None
                 THEN fc.dropped
                 ELSE fc.dropped + (frameid - fc.last_frameid[1] - 1),
     last_frameid |-> <<frameid>>]

\* FrameCounter.update(image_queue_length, frameid)
FrameCounter_update(fc, image_queue_length, frameid) ==
    [acquired |-> fc.acquired + 1,
     buffered |-> image_queue_length,
     dropped |-> IF fc.last_frameid = None
                 THEN fc.dropped
                 ELSE fc.dropped + (frameid - fc.last_frameid[1] - 1),
     last_frameid |-> <<frameid>>]

\* ------------------------------------------------------------------ deques
\* Faulty variant of the unbounded append: a deque of capacity one, whose append
\* discards the item already there.
deque_append_evicting(q, x) == IF Len(q) >= 1 THEN Append(Tail(q), x) ELSE Append(q, x)

\* collections.deque.append on an unbounded deque.
deque_append(q, x) == Append(q, x)

\* Faulty variant of the bounded append: the deque grows past maxlen.
deque_append_unbounded(q, x, maxlen) == Append(q, x)

\* collections.deque.append on a deque(maxlen=n): a full deque drops its oldest item.
deque_append_maxlen(q, x, maxlen) ==
    IF Len(q) >= maxlen THEN Append(Tail(q), x) ELSE Append(q, x)

\* Faulty variant of popleft: the item is read but left in the deque.
deque_peek(q) == [item |-> Head(q), rest |-> q]

\* Faulty variant of popleft: pop(), which takes the newest item.
deque_pop(q) == [item |-> q[Len(q)], rest |-> SubSeq(q, 1, Len(q) - 1)]

\* collections.deque.popleft: the item returned and the deque left.
deque_popleft(q) == [item |-> Head(q), rest |-> Tail(q)]

\* images_queue.append(x) in acquire_images (line 136): the deque is the one its
\* caller made, unbounded (run_experiment_*) or deque(maxlen=n) (setup_experiment).
images_queue_append(q, x, maxlen) ==
    IF maxlen = None THEN deque_append(q, x) ELSE deque_append_maxlen(q, x, maxlen[1])

\* deque([], maxlen=1) of run_experiment_gui
DisplayMaxlen == 1

\* deque(maxlen=10) of setup_experiment
PreviewMaxlen == 10

\* ------------------------------------------------------------------ frames
\* The image GetNextImage returns for the device's frame `id`; its chunk data
\* carries the frame id and the device-clock timestamp.
DeviceImage(id, incomplete) ==
    [frame_id |-> id, timestamp |-> 10 * id + 7,
     pixel_format |-> "Raw", incomplete |-> incomplete]

\* image_result.Convert(PySpin.PixelFormat_Mono8, PySpin.HQ_LINEAR)
Convert(image) == [image EXCEPT !.pixel_format = "Mono8"]

\* Faulty variant of get_id_timestamp_from_chunk_data: the pair in the wrong order.
get_timestamp_id_from_chunk_data(image) == <<image.timestamp, image.frame_id>>

\* get_id_timestamp_from_chunk_data(image), when the chunk data is readable
get_id_timestamp_from_chunk_data(image) == <<image.frame_id, image.timestamp>>

\* Faulty variant of the sample: the acquired counter as it was before the update
\* for the sample's frame.
DisplaySample_stale(image, fc) ==
    [image |-> image.frame_id,
     acquired_counter |-> fc.acquired - 1,
     buffered_counter |-> fc.buffered,
     dropped_counter |-> fc.dropped]

\* The dict save_images appends to display_image_queue.
DisplaySample(image, fc) ==
    [image |-> image.frame_id,
     acquired_counter |-> fc.acquired,
     buffered_counter |-> fc.buffered,
     dropped_counter |-> fc.dropped]

\* An OffsetX / OffsetY node of a camera whose region of interest leaves room on
\* both sides: the offset in the middle of its range.
NodeAtRest == [Value |-> 2, Min |-> 0, Max |-> 4, Increment |-> 2]

NoImage == [frame_id |-> 0, timestamp |-> 0, pixel_format |-> "none", incomplete |-> FALSE]
NoSample == [image |-> 0, acquired_counter |-> 0, buffered_counter |-> 0,
             dropped_counter |-> 0]

\* ------------------------------------------------------------------- start
Init ==
    /\ acquisition_complete_event = FALSE
    /\ images_queue = <<>>
    /\ display_image_queue = <<>>
    /\ use_gui \in BOOLEAN
    /\ camera_acquiring_flag = FALSE
    /\ cam_streaming = FALSE
    /\ trigger_mode = "unset"
    /\ chunk_data = FALSE
    /\ device_next_id = 0
    /\ device_frames = 0
    /\ acq_pc = "unstarted"
    /\ acq_result = "pending"
    /\ save_pc = "unstarted"
    /\ save_result = "pending"
    /\ new_image = NoImage
    /\ frame_counter = FrameCounter_init
    /\ video = <<>>
    /\ video_open = FALSE
    /\ log = <<>>
    /\ log_open = FALSE
    /\ gui_pc = "unstarted"
    /\ shown = NoSample
    /\ coord_pc = "enable_chunk_data"
    /\ run_result = "pending"
    /\ enqueued = <<>>
    /\ queue_at_stop = <<>>
    /\ delivered_at_stop = 0
    /\ update_ids = <<>>
    /\ depth_at_pop = 0
    /\ last_fetch = "none"
    /\ incomplete_ids = {}
    /\ end_acquisition_called = FALSE
    /\ popped = <<>>
    /\ chunk_data_error = FALSE
    /\ images_queue_maxlen = None
    /\ acq_camera_trigger_mode = FALSE
    /\ setup_pc = "returned"
    /\ continue_experiment = TRUE
    /\ setup_result = "True"
    /\ OffsetX = NodeAtRest
    /\ OffsetY = NodeAtRest
    /\ desired_offsetx = 0
    /\ desired_offsety = 0
    /\ new_offsetx = 0
    /\ new_offsety = 0
    /\ offset_written_acquiring = FALSE
    /\ unguarded_device_call = FALSE

\* The stop signal is set (threading.Event.set); the history variable records the
\* transfer queue at the first set.
Event_set ==
    /\ acquisition_complete_event' = TRUE
    /\ queue_at_stop' = IF acquisition_complete_event THEN queue_at_stop ELSE images_queue
    /\ delivered_at_stop' =
          IF acquisition_complete_event THEN delivered_at_stop ELSE Len(enqueued)

\* ------------------------------------------------------------------ camera
\* Camera.begin_acquisition, line 162: cam.BeginAcquisition() is called when the
\* flag is False.
BeginAcquisition_issued(flag) == flag = FALSE

\* Camera.end_acquisition, line 171: cam.EndAcquisition() is called when the flag
\* is True.
EndAcquisition_issued(flag) == flag = TRUE

\* Faulty variant of begin_acquisition: the flag assigned outside the try block,
\* whether or not cam.BeginAcquisition() succeeded.
begin_acquisition_flag_outside_try(flag, device_ok) ==
    IF BeginAcquisition_issued(flag) THEN TRUE ELSE flag

\* Camera.begin_acquisition: the flag after the call; device_ok is whether
\* cam.BeginAcquisition() succeeded (its exception is printed and swallowed).
begin_acquisition(flag, device_ok) ==
    IF BeginAcquisition_issued(flag) THEN (IF device_ok THEN TRUE ELSE flag) ELSE flag

\* Camera.end_acquisition: the flag after the call.
end_acquisition(flag, device_ok) ==
    IF EndAcquisition_issued(flag) THEN (IF device_ok THEN FALSE ELSE flag) ELSE flag

\* The device after Camera.begin_acquisition: streaming once an issued
\* BeginAcquisition has succeeded.
streaming_after_begin(flag, streaming, device_ok) ==
    IF BeginAcquisition_issued(flag) /\ device_ok THEN TRUE ELSE streaming

\* The device after Camera.end_acquisition.
streaming_after_end(flag, streaming, device_ok) ==
    IF EndAcquisition_issued(flag) /\ device_ok THEN FALSE ELSE streaming

\* ------------------------------------------------------- acquire_images
\* Lines 102-105: the trigger mode is applied before the try block.
\* Faulty variant of the coordinators' call: the keyword argument left out, so that
\* acquire_images runs with its default, camera_trigger_mode=False (line 85).
camera_trigger_mode_default == FALSE

\* run_experiment_cli and run_experiment_gui both pass camera_trigger_mode=True.
camera_trigger_mode == TRUE

AcqSetTriggerMode ==
    /\ acq_pc = "trigger"
    /\ trigger_mode' = IF acq_camera_trigger_mode THEN "On" ELSE "Off"
    /\ acq_pc' = "begin"
    /\ UNCHANGED <<sharedVars, camera_acquiring_flag, cam_streaming, chunk_data,
                   device_next_id, device_frames, acq_result, saveVars, guiVars,
                   coordVars, histVars>>
    /\ UNCHANGED <<argVars, setupVars, deviceHist>>

\* Line 110: camera.begin_acquisition().
AcqBeginAcquisition ==
    /\ acq_pc = "begin"
    /\ \E device_ok \in BOOLEAN :
          /\ camera_acquiring_flag' = begin_acquisition(camera_acquiring_flag, device_ok)
          /\ cam_streaming' =
                streaming_after_begin(camera_acquiring_flag, cam_streaming, device_ok)
    /\ unguarded_device_call' =
          (unguarded_device_call
             \/ (BeginAcquisition_issued(camera_acquiring_flag) /\ camera_acquiring_flag))
    /\ acq_pc' = "loop"
    /\ UNCHANGED <<sharedVars, trigger_mode, chunk_data, device_next_id, device_frames,
                   acq_result, saveVars, guiVars, coordVars, histVars>>
    /\ UNCHANGED <<argVars, setupVars>>

\* Faulty variant of the loop condition: "while True", the stop signal not read.
AcqCheckStop_while_true ==
    /\ acq_pc = "loop"
    /\ acq_pc' = "fetch"
    /\ UNCHANGED <<sharedVars, camVars, acq_result, saveVars, guiVars, coordVars,
                   histVars>>
    /\ UNCHANGED <<argVars, setupVars, deviceHist>>

\* Line 112: the loop condition, acquisition_complete_event.is_set() is False.
AcqCheckStop ==
    /\ acq_pc = "loop"
    /\ acq_pc' = IF acquisition_complete_event = FALSE THEN "fetch" ELSE "end"
    /\ UNCHANGED <<sharedVars, camVars, acq_result, saveVars, guiVars, coordVars,
                   histVars>>
    /\ UNCHANGED <<argVars, setupVars, deviceHist>>

\* Faulty variant of the handler of lines 126-129: the exception ends the stage
\* with a failure instead of continuing the loop.
AcqGetNextImageException_fatal(kind) ==
    /\ acq_pc = "fetch"
    /\ acq_pc' = "done"
    /\ acq_result' = "False"
    /\ last_fetch' = kind
    /\ UNCHANGED <<sharedVars, camVars, saveVars, guiVars, coordVars,
                   enqueued, stopHist, update_ids, depth_at_pop, incomplete_ids,
                   end_acquisition_called,
                   popped, chunk_data_error>>
    /\ UNCHANGED <<argVars, setupVars, deviceHist>>

\* Lines 124-129: GetNextImage(50) raises SpinnakerException: kind "timeout" (no
\* image within 50 ms) or "error" (any other device error).  The handler does not
\* tell them apart: the loop continues.
AcqGetNextImageException(kind) ==
    /\ acq_pc = "fetch"
    /\ acq_pc' = "loop"
    /\ last_fetch' = kind
    /\ UNCHANGED <<sharedVars, camVars, acq_result, saveVars, guiVars, coordVars,
                   enqueued, stopHist, update_ids, depth_at_pop, incomplete_ids,
                   end_acquisition_called,
                   popped, chunk_data_error>>
    /\ UNCHANGED <<argVars, setupVars, deviceHist>>

\* The device hands over its next frame, with frame id `id`.
DeviceDelivers(id) ==
    /\ cam_streaming
    /\ device_frames' = device_frames + 1
    /\ device_next_id' = id + 1

\* Faulty variant of lines 131-139: the IsIncomplete() test left out, every image
\* converted and appended.
AcqGetNextImage_no_test(id, incomplete) ==
    /\ acq_pc = "fetch"
    /\ DeviceDelivers(id)
    /\ LET image_result == DeviceImage(id, incomplete) IN
          /\ images_queue' = images_queue_append(images_queue, Convert(image_result), images_queue_maxlen)
          /\ enqueued' = Append(enqueued, Convert(image_result))
          /\ incomplete_ids' = IF image_result.incomplete
                               THEN incomplete_ids \cup {id} ELSE incomplete_ids
          /\ last_fetch' = IF image_result.incomplete THEN "incomplete" ELSE "image"
    /\ acq_pc' = "loop"
    /\ UNCHANGED <<acquisition_complete_event, display_image_queue, use_gui,
                   camera_acquiring_flag, cam_streaming, trigger_mode, chunk_data,
                   acq_result, saveVars, guiVars, coordVars, stopHist, update_ids,
                   depth_at_pop, end_acquisition_called,
                   popped, chunk_data_error>>
    /\ UNCHANGED <<argVars, setupVars, deviceHist>>

\* Lines 124, 131-141: GetNextImage returns the frame `id`; an incomplete image is
\* only reported, a complete one is converted and appended to images_queue.
AcqGetNextImage(id, incomplete) ==
    /\ acq_pc = "fetch"
    /\ DeviceDelivers(id)
    /\ LET image_result == DeviceImage(id, incomplete) IN
          IF image_result.incomplete
          THEN /\ incomplete_ids' = incomplete_ids \cup {id}
               /\ last_fetch' = "incomplete"
               /\ UNCHANGED <<images_queue, enqueued,
                   popped, chunk_data_error>>
          ELSE /\ images_queue' = images_queue_append(images_queue, Convert(image_result), images_queue_maxlen)
               /\ enqueued' = Append(enqueued, Convert(image_result))
               /\ last_fetch' = "image"
               /\ UNCHANGED incomplete_ids
    /\ acq_pc' = "loop"
    /\ UNCHANGED <<acquisition_complete_event, display_image_queue, use_gui,
                   camera_acquiring_flag, cam_streaming, trigger_mode, chunk_data,
                   acq_result, saveVars, guiVars, coordVars, stopHist, update_ids,
                   depth_at_pop, end_acquisition_called,
                   popped, chunk_data_error>>
    /\ UNCHANGED <<argVars, setupVars, deviceHist>>

\* Lines 131-139, 145-149: IsIncomplete, Convert or Release raises SpinnakerException
\* outside the inner try: the outer handler sets result False and the function
\* returns without end_acquisition.
AcqImageError(id) ==
    /\ acq_pc = "fetch"
    /\ DeviceDelivers(id)
    /\ acq_pc' = "done"
    /\ acq_result' = "False"
    /\ last_fetch' = "image"
    /\ UNCHANGED <<sharedVars, camera_acquiring_flag, cam_streaming, trigger_mode,
                   chunk_data, saveVars, guiVars, coordVars, enqueued, stopHist,
                   update_ids, depth_at_pop, incomplete_ids, end_acquisition_called,
                   popped, chunk_data_error>>
    /\ UNCHANGED <<argVars, setupVars, deviceHist>>

\* Faulty variant of the end of acquire_images: the stage clears the stop signal
\* itself before it returns.
AcqEndAcquisition_clears_event ==
    /\ acq_pc = "end"
    /\ \E device_ok \in BOOLEAN :
          /\ camera_acquiring_flag' = end_acquisition(camera_acquiring_flag, device_ok)
          /\ cam_streaming' =
                streaming_after_end(camera_acquiring_flag, cam_streaming, device_ok)
    /\ unguarded_device_call' =
          (unguarded_device_call
             \/ (EndAcquisition_issued(camera_acquiring_flag) /\ ~camera_acquiring_flag))
    /\ acquisition_complete_event' = ~acquisition_complete_event
    /\ end_acquisition_called' = TRUE
    /\ acq_pc' = "done"
    /\ acq_result' = "True"
    /\ UNCHANGED <<images_queue, display_image_queue, use_gui, trigger_mode, chunk_data,
                   device_next_id, device_frames, saveVars, guiVars, coordVars,
                   enqueued, stopHist, update_ids, depth_at_pop, last_fetch,
                   incomplete_ids, popped, chunk_data_error>>
    /\ UNCHANGED <<argVars, setupVars>>

\* Lines 143, 149: camera.end_acquisition(), then return result.
AcqEndAcquisition ==
    /\ acq_pc = "end"
    /\ \E device_ok \in BOOLEAN :
          /\ camera_acquiring_flag' = end_acquisition(camera_acquiring_flag, device_ok)
          /\ cam_streaming' =
                streaming_after_end(camera_acquiring_flag, cam_streaming, device_ok)
    /\ unguarded_device_call' =
          (unguarded_device_call
             \/ (EndAcquisition_issued(camera_acquiring_flag) /\ ~camera_acquiring_flag))
    /\ end_acquisition_called' = TRUE
    /\ acq_pc' = "done"
    /\ acq_result' = "True"
    /\ UNCHANGED <<sharedVars, trigger_mode, chunk_data, device_next_id, device_frames,
                   saveVars, guiVars, coordVars, enqueued, stopHist, update_ids,
                   depth_at_pop, last_fetch, incomplete_ids,
                   popped, chunk_data_error>>
    /\ UNCHANGED <<argVars, setupVars>>

\* The frame ids the device can give the next frame it hands over: the next id, or
\* the one after it when a frame in between never reached the host.
NextIds == {device_next_id, device_next_id + 1}

\* ----------------------------------------------------------- save_images
\* Lines 190-216: the image size is read from the camera, the video writer and the
\* log file are opened, the FrameCounter is created.  "SpinnakerException" (from the
\* node map, before anything is open) is caught at line 261 and returns False; any
\* other exception (open() failing) leaves the function with the writer open.
SaveOpen(fault) ==
    /\ save_pc = "open"
    /\ CASE fault = "none" ->
              /\ video_open' = TRUE
              /\ log_open' = TRUE
              /\ frame_counter' = FrameCounter_init
              /\ save_pc' = "check"
              /\ UNCHANGED save_result
         [] fault = "SpinnakerException" ->
              /\ save_pc' = "done"
              /\ save_result' = "False"
              /\ UNCHANGED <<video_open, log_open, frame_counter>>
         [] fault = "Exception" ->
              /\ video_open' = TRUE
              /\ save_pc' = "done"
              /\ save_result' = "raised"
              /\ UNCHANGED <<log_open, frame_counter>>
    /\ UNCHANGED <<sharedVars, camVars, acqVars, new_image, video, log, guiVars,
                   coordVars, histVars>>
    /\ UNCHANGED <<argVars, setupVars, deviceHist>>

\* Line 220: len(images_queue) > 0.
SaveCheckQueue ==
    /\ save_pc = "check"
    /\ save_pc' = IF Len(images_queue) > 0 THEN "pop" ELSE "idle"
    /\ UNCHANGED <<sharedVars, camVars, acqVars, save_result, new_image, frame_counter,
                   video, video_open, log, log_open, guiVars, coordVars, histVars>>
    /\ UNCHANGED <<argVars, setupVars, deviceHist>>

\* Lines 223-224: popleft, then video_recorder.write(new_image.GetNDArray()).
\* GetNDArray raising SpinnakerException returns False (line 261); any other
\* exception (the writer's) leaves the function uncaught.  Both leave the files open.
SavePopWrite(fault) ==
    /\ save_pc = "pop"
    /\ LET item_rest == deque_popleft(images_queue) IN
          /\ images_queue' = item_rest.rest
          /\ new_image' = item_rest.item
          /\ depth_at_pop' = Len(item_rest.rest)
          /\ popped' = Append(popped, item_rest.item)
          /\ CASE fault = "none" ->
                    /\ video' = Append(video, item_rest.item)
                    /\ save_pc' = "meta"
                    /\ UNCHANGED save_result
               [] fault = "SpinnakerException" ->
                    /\ save_pc' = "done"
                    /\ save_result' = "False"
                    /\ UNCHANGED video
               [] fault = "Exception" ->
                    /\ save_pc' = "done"
                    /\ save_result' = "raised"
                    /\ UNCHANGED video
    /\ UNCHANGED <<acquisition_complete_event, display_image_queue, use_gui, camVars,
                   acqVars, frame_counter, video_open, log, log_open, guiVars,
                   coordVars, enqueued, stopHist, update_ids, acqHist,
                   chunk_data_error>>
    /\ UNCHANGED <<argVars, setupVars, deviceHist>>

\* Lines 227-228: the frame id and timestamp are read from the chunk data and written
\* as one row.  A chunk-data error ("ChunkData") is caught and printed inside
\* get_id_timestamp_from_chunk_data (lines 164-165), whose return statement (line
\* 167) then raises UnboundLocalError; writerow can raise OSError ("Exception").
\* Neither is a SpinnakerException, so both leave save_images uncaught.
SaveWriteRow(fault) ==
    /\ save_pc = "meta"
    /\ CASE fault = "none" ->
              /\ log' = Append(log, get_id_timestamp_from_chunk_data(new_image))
              /\ save_pc' = "update"
              /\ UNCHANGED <<save_result, chunk_data_error>>
         [] fault = "ChunkData" ->
              /\ chunk_data_error' = TRUE
              /\ save_pc' = "done"
              /\ save_result' = "raised"
              /\ UNCHANGED log
         [] fault = "Exception" ->
              /\ save_pc' = "done"
              /\ save_result' = "raised"
              /\ UNCHANGED <<log, chunk_data_error>>
    /\ UNCHANGED <<sharedVars, camVars, acqVars, new_image, frame_counter, video,
                   video_open, log_open, guiVars, coordVars, enqueued, stopHist,
                   update_ids, depth_at_pop, acqHist, popped>>
    /\ UNCHANGED <<argVars, setupVars, deviceHist>>

\* Faulty variant of lines 231-245: the display queue as a blocking queue, whose put
\* waits while the queue is full.
SaveUpdate_put_blocks ==
    /\ save_pc = "update"
    /\ use_gui => Len(display_image_queue) < DisplayMaxlen
    /\ LET frame_id == get_id_timestamp_from_chunk_data(new_image)[1]
           counter == FrameCounter_update(frame_counter, Len(images_queue), frame_id)
       IN /\ frame_counter' = counter
          /\ update_ids' = Append(update_ids, frame_id)
          /\ display_image_queue' =
                IF use_gui
                THEN Append(display_image_queue, DisplaySample(new_image, counter))
                ELSE display_image_queue
    /\ save_pc' = "check"
    /\ UNCHANGED <<acquisition_complete_event, images_queue, use_gui, camVars, acqVars,
                   save_result, new_image, video, video_open, log, log_open, guiVars,
                   coordVars, enqueued, stopHist, depth_at_pop, acqHist, popped, chunk_data_error>>
    /\ UNCHANGED <<argVars, setupVars, deviceHist>>

\* Lines 231-245: frame_counter.update(len(images_queue), frame_id), then the sample
\* for the GUI when there is a display queue.
SaveUpdate ==
    /\ save_pc = "update"
    /\ LET frame_id == get_id_timestamp_from_chunk_data(new_image)[1]
           counter == FrameCounter_update(frame_counter, Len(images_queue), frame_id)
       IN /\ frame_counter' = counter
          /\ update_ids' = Append(update_ids, frame_id)
          /\ display_image_queue' =
                IF use_gui
                THEN deque_append_maxlen(display_image_queue,
                                         DisplaySample(new_image, counter), DisplayMaxlen)
                ELSE display_image_queue
    /\ save_pc' = "check"
    /\ UNCHANGED <<acquisition_complete_event, images_queue, use_gui, camVars, acqVars,
                   save_result, new_image, video, video_open, log, log_open, guiVars,
                   coordVars, enqueued, stopHist, depth_at_pop, acqHist,
                   popped, chunk_data_error>>
    /\ UNCHANGED <<argVars, setupVars, deviceHist>>

\* Faulty variant of the test of line 249: the loop ends whenever the queue was
\* found empty, whatever the stop signal.
save_break_on_empty(event_is_set) == TRUE

\* Line 249: after the sleep of line 248, the loop ends when the stop signal is set.
save_break(event_is_set) == event_is_set

\* Lines 247-250: the queue was empty: sleep, then test the stop signal.
SaveIdle ==
    /\ save_pc = "idle"
    /\ save_pc' = IF save_break(acquisition_complete_event) THEN "close" ELSE "check"
    /\ UNCHANGED <<sharedVars, camVars, acqVars, save_result, new_image, frame_counter,
                   video, video_open, log, log_open, guiVars, coordVars, histVars>>
    /\ UNCHANGED <<argVars, setupVars, deviceHist>>

\* Lines 252-259, 265: the log file is closed, the writer released, result returned.
SaveClose ==
    /\ save_pc = "close"
    /\ log_open' = FALSE
    /\ video_open' = FALSE
    /\ save_pc' = "done"
    /\ save_result' = "True"
    /\ UNCHANGED <<sharedVars, camVars, acqVars, new_image, frame_counter, video, log,
                   guiVars, coordVars, histVars>>
    /\ UNCHANGED <<argVars, setupVars, deviceHist>>

\* -------------------------------------------------------------- AcquireGui
\* Line 348: update_video finds len(self.display_image_queue) > 0.  (With an empty
\* queue the callback only re-arms its timer.)
GuiUpdateVideoCheck ==
    /\ gui_pc = "mainloop"
    /\ Len(display_image_queue) > 0
    /\ gui_pc' = "pop"
    /\ UNCHANGED <<sharedVars, camVars, acqVars, saveVars, shown, coordVars, histVars>>
    /\ UNCHANGED <<argVars, setupVars, deviceHist>>

\* Lines 349-364: popleft (IndexError on an empty deque), the sample is put on
\* screen and the timer is re-armed.
GuiUpdateVideo ==
    /\ gui_pc = "pop"
    /\ display_image_queue # <<>>
    /\ LET item_rest == deque_popleft(display_image_queue) IN
          /\ display_image_queue' = item_rest.rest
          /\ shown' = item_rest.item
    /\ gui_pc' = "mainloop"
    /\ UNCHANGED <<acquisition_complete_event, images_queue, use_gui, camVars, acqVars,
                   saveVars, coordVars, histVars>>
    /\ UNCHANGED <<argVars, setupVars, deviceHist>>

\* AcquireGui.close_gui (lines 336-338): the Stop button or the window's close box.
GuiCloseGui ==
    /\ gui_pc = "mainloop"
    /\ Event_set
    /\ gui_pc' = "done"
    /\ UNCHANGED <<images_queue, display_image_queue, use_gui, camVars, acqVars,
                   saveVars, shown, coordVars, enqueued, update_ids, depth_at_pop,
                   acqHist,
                   popped, chunk_data_error>>
    /\ UNCHANGED <<argVars, setupVars, deviceHist>>

\* ------------------------------------------- run_experiment_cli / _gui
\* Thread.is_alive() of the three threads.
acquire_images_thread_is_alive == acq_pc \notin {"unstarted", "done"}
save_images_thread_is_alive == save_pc \notin {"unstarted", "done"}
acquisition_gui_thread_is_alive == gui_pc \notin {"unstarted", "done"}

\* Faulty variant of the loop condition: "and" for "or".
threads_alive_and ==
    /\ acquire_images_thread_is_alive
    /\ save_images_thread_is_alive
    /\ (use_gui => acquisition_gui_thread_is_alive)

\* The loop condition of lines 431 and 493.
threads_alive ==
    \/ acquire_images_thread_is_alive
    \/ save_images_thread_is_alive
    \/ acquisition_gui_thread_is_alive

\* Lines 399 / 469: camera.enable_chunk_data().
CoordEnableChunkData ==
    /\ coord_pc = "enable_chunk_data"
    /\ chunk_data' = TRUE
    /\ coord_pc' = "start_acquire"
    /\ UNCHANGED <<sharedVars, camera_acquiring_flag, cam_streaming, trigger_mode,
                   device_next_id, device_frames, acqVars, saveVars, guiVars, run_result,
                   histVars>>
    /\ UNCHANGED <<argVars, setupVars, deviceHist>>

\* Lines 426 / 489: acquire_images_thread.start().
CoordStartAcquire ==
    /\ coord_pc = "start_acquire"
    /\ acq_pc' = "trigger"
    /\ coord_pc' = "start_save"
    /\ UNCHANGED <<sharedVars, camVars, acq_result, saveVars, guiVars, run_result,
                   histVars>>
    /\ acq_camera_trigger_mode' = camera_trigger_mode
    /\ UNCHANGED <<images_queue_maxlen, setupVars, deviceHist>>

\* Lines 427 / 490: save_images_thread.start().
CoordStartSave ==
    /\ coord_pc = "start_save"
    /\ save_pc' = "open"
    /\ coord_pc' = IF use_gui THEN "start_gui" ELSE "join"
    /\ UNCHANGED <<sharedVars, camVars, acqVars, save_result, new_image, frame_counter,
                   video, video_open, log, log_open, guiVars, run_result, histVars>>
    /\ UNCHANGED <<argVars, setupVars, deviceHist>>

\* Line 428: acquisition_gui_thread.start() (run_experiment_gui only).
CoordStartGui ==
    /\ coord_pc = "start_gui"
    /\ gui_pc' = "mainloop"
    /\ coord_pc' = "join"
    /\ UNCHANGED <<sharedVars, camVars, acqVars, saveVars, shown, run_result, histVars>>
    /\ UNCHANGED <<argVars, setupVars, deviceHist>>

\* Lines 442-444 / 501-503: KeyboardInterrupt during the joins sets the stop signal
\* and the loop goes on.
CoordKeyboardInterrupt ==
    /\ coord_pc = "join"
    /\ Event_set
    /\ UNCHANGED <<images_queue, display_image_queue, use_gui, camVars, acqVars,
                   saveVars, guiVars, coordVars, enqueued, update_ids, depth_at_pop,
                   acqHist,
                   popped, chunk_data_error>>
    /\ UNCHANGED <<argVars, setupVars, deviceHist>>

\* Lines 431, 446 / 493, 505: no thread is alive: the loop ends, chunk data is
\* disabled and the function returns (no return statement: None).
CoordReturn ==
    /\ coord_pc = "join"
    /\ ~threads_alive
    /\ chunk_data' = FALSE
    /\ coord_pc' = "returned"
    /\ run_result' = "None"
    /\ UNCHANGED <<sharedVars, camera_acquiring_flag, cam_streaming, trigger_mode,
                   device_next_id, device_frames, acqVars, saveVars, guiVars, histVars>>
    /\ UNCHANGED <<argVars, setupVars, deviceHist>>

\* ------------------------------------------- Camera.update_image_offset
\* Lines 222-232: [i for i in range(Min, Max, Increment)]; range leaves Max out.
valid_offset_values(node) ==
    {v \in node.Min .. (node.Max - 1) : (v - node.Min) % node.Increment = 0}

Abs(n) == IF n < 0 THEN 0 - n ELSE n

\* Lines 234-235: min(values, key=lambda x: abs(x - desired)); of several values at
\* the same distance min returns the first of the list, the smallest.
closest_offset(values, desired) ==
    CHOOSE v \in values :
        \A w \in values :
            \/ Abs(v - desired) < Abs(w - desired)
            \/ (Abs(v - desired) = Abs(w - desired) /\ v <= w)

\* ----------------------------------------- setup_experiment and SetupGUI
\* Horizontal distances of a click from the centre of the preview image.
ClickDeltas == {-2, 2}

\* The setup phase runs in the main thread: setup_experiment starts the preview
\* acquisition thread and then runs the Tk main loop, whose callbacks are the
\* steps below.
\* setup.py lines 143-160: the preview deque, the event, the thread (started with
\* camera_trigger_mode=False), the window, mainloop().
SetupStartAcquire ==
    /\ setup_pc = "start"
    /\ images_queue' = <<>>
    /\ images_queue_maxlen' = <<PreviewMaxlen>>
    /\ acq_camera_trigger_mode' = FALSE
    /\ acq_pc' = "trigger"
    /\ setup_pc' = "mainloop"
    /\ UNCHANGED <<deviceHist,
                   acquisition_complete_event, display_image_queue, use_gui, camVars,
                   acq_result, saveVars, guiVars, coordVars, histVars,
                   continue_experiment, setup_result, offsetVars>>

\* Faulty variant of update_video: the length test left out, popleft whatever the
\* queue holds.
SetupUpdateVideoCheck_no_length_test ==
    /\ setup_pc = "mainloop"
    /\ setup_pc' = "pop"
    /\ UNCHANGED <<deviceHist,
                   sharedVars, camVars, acqVars, saveVars, guiVars, coordVars, histVars,
                   argVars, continue_experiment, setup_result, offsetVars>>

\* setup.py line 122: update_video finds len(self.images_queue) > 0.  (With an empty
\* queue the callback only re-arms its timer.)
SetupUpdateVideoCheck ==
    /\ setup_pc = "mainloop"
    /\ Len(images_queue) > 0
    /\ setup_pc' = "pop"
    /\ UNCHANGED <<deviceHist,
                   sharedVars, camVars, acqVars, saveVars, guiVars, coordVars, histVars,
                   argVars, continue_experiment, setup_result, offsetVars>>

\* setup.py lines 123-130: popleft, the image is shown, the timer is re-armed.
SetupUpdateVideoPop ==
    /\ setup_pc = "pop"
    /\ images_queue # <<>>
    /\ LET item_rest == deque_popleft(images_queue) IN
          /\ images_queue' = item_rest.rest
          /\ popped' = Append(popped, item_rest.item)
    /\ setup_pc' = "mainloop"
    /\ UNCHANGED <<deviceHist,
                   acquisition_complete_event, display_image_queue, use_gui, camVars,
                   acqVars, saveVars, guiVars, coordVars, enqueued, stopHist, update_ids,
                   depth_at_pop, acqHist, chunk_data_error, argVars,
                   continue_experiment, setup_result, offsetVars>>

\* setup.py lines 115-118, camera.py lines 211-219: a click at (dx, dy) from the
\* centre of the image calls update_image_offset, which ends the acquisition,
\* reads the image settings and computes the desired offsets.
SetupMouseClick(offsetx_delta, offsety_delta) ==
    /\ setup_pc = "mainloop"
    /\ \E device_ok \in BOOLEAN :
          /\ camera_acquiring_flag' = end_acquisition(camera_acquiring_flag, device_ok)
          /\ cam_streaming' =
                streaming_after_end(camera_acquiring_flag, cam_streaming, device_ok)
    /\ unguarded_device_call' =
          (unguarded_device_call
             \/ (EndAcquisition_issued(camera_acquiring_flag) /\ ~camera_acquiring_flag))
    /\ desired_offsetx' = OffsetX.Value + offsetx_delta
    /\ desired_offsety' = OffsetY.Value + offsety_delta
    /\ setup_pc' = "offset_select"
    /\ UNCHANGED <<sharedVars, trigger_mode, chunk_data, device_next_id, device_frames,
                   acqVars, saveVars, guiVars, coordVars, histVars, argVars,
                   continue_experiment, setup_result, OffsetX, OffsetY, new_offsetx,
                   new_offsety, offset_written_acquiring>>

\* camera.py lines 222-235: the lists of valid values and the closest of each.  min()
\* of an empty list raises ValueError: the callback ends there (Tk reports it) and
\* the rest of update_image_offset does not run.
SetupSelectOffsets ==
    /\ setup_pc = "offset_select"
    /\ IF valid_offset_values(OffsetX) = {} \/ valid_offset_values(OffsetY) = {}
       THEN /\ setup_pc' = "mainloop"
            /\ UNCHANGED <<new_offsetx, new_offsety>>
       ELSE /\ new_offsetx' = closest_offset(valid_offset_values(OffsetX), desired_offsetx)
            /\ new_offsety' = closest_offset(valid_offset_values(OffsetY), desired_offsety)
            /\ setup_pc' = "offset_write_x"
    /\ UNCHANGED <<deviceHist,
                   sharedVars, camVars, acqVars, saveVars, guiVars, coordVars, histVars,
                   argVars, continue_experiment, setup_result, OffsetX, OffsetY,
                   desired_offsetx, desired_offsety, offset_written_acquiring>>

\* camera.py lines 237-239: OffsetX.SetValue(new_offsetx) when the node is available
\* and writable.
SetupWriteOffsetX(writable) ==
    /\ setup_pc = "offset_write_x"
    /\ IF writable
       THEN /\ OffsetX' = [OffsetX EXCEPT !.Value = new_offsetx]
            /\ offset_written_acquiring' =
                  (offset_written_acquiring \/ camera_acquiring_flag)
       ELSE UNCHANGED <<OffsetX, offset_written_acquiring>>
    /\ setup_pc' = "offset_write_y"
    /\ UNCHANGED <<deviceHist,
                   sharedVars, camVars, acqVars, saveVars, guiVars, coordVars, histVars,
                   argVars, continue_experiment, setup_result, OffsetY,
                   desired_offsetx, desired_offsety, new_offsetx, new_offsety>>

\* camera.py lines 241-243: OffsetY.SetValue(new_offsety), likewise.
SetupWriteOffsetY(writable) ==
    /\ setup_pc = "offset_write_y"
    /\ IF writable
       THEN /\ OffsetY' = [OffsetY EXCEPT !.Value = new_offsety]
            /\ offset_written_acquiring' =
                  (offset_written_acquiring \/ camera_acquiring_flag)
       ELSE UNCHANGED <<OffsetY, offset_written_acquiring>>
    /\ setup_pc' = "offset_begin"
    /\ UNCHANGED <<deviceHist,
                   sharedVars, camVars, acqVars, saveVars, guiVars, coordVars, histVars,
                   argVars, continue_experiment, setup_result, OffsetX,
                   desired_offsetx, desired_offsety, new_offsetx, new_offsety>>

\* camera.py line 245: self.begin_acquisition(); the callback returns.
SetupOffsetBegin ==
    /\ setup_pc = "offset_begin"
    /\ \E device_ok \in BOOLEAN :
          /\ camera_acquiring_flag' = begin_acquisition(camera_acquiring_flag, device_ok)
          /\ cam_streaming' =
                streaming_after_begin(camera_acquiring_flag, cam_streaming, device_ok)
    /\ unguarded_device_call' =
          (unguarded_device_call
             \/ (BeginAcquisition_issued(camera_acquiring_flag) /\ camera_acquiring_flag))
    /\ setup_pc' = "mainloop"
    /\ UNCHANGED <<sharedVars, trigger_mode, chunk_data, device_next_id, device_frames,
                   acqVars, saveVars, guiVars, coordVars, histVars, argVars,
                   continue_experiment, setup_result, offsetVars>>

\* setup.py lines 92-102: the 'Begin Experiment' button (begin TRUE), or 'Cancel' or
\* the window's close box (begin FALSE): continue_experiment is assigned, then
\* close_gui reads the entries and sets the stop signal.
SetupCloseGui(begin) ==
    /\ setup_pc = "mainloop"
    /\ continue_experiment' = begin
    /\ Event_set
    /\ setup_pc' = "destroy"
    /\ UNCHANGED <<deviceHist,
                   images_queue, display_image_queue, use_gui, camVars, acqVars,
                   saveVars, guiVars, coordVars, enqueued, update_ids, depth_at_pop,
                   acqHist, popped, chunk_data_error, argVars, setup_result,
                   offsetVars>>

\* setup.py lines 103, 160-161: gui.destroy(); mainloop() returns to
\* setup_experiment, which goes on to join the thread.
SetupDestroy ==
    /\ setup_pc = "destroy"
    /\ setup_pc' = "join"
    /\ UNCHANGED <<deviceHist,
                   sharedVars, camVars, acqVars, saveVars, guiVars, coordVars, histVars,
                   argVars, continue_experiment, setup_result, offsetVars>>

\* Faulty variant of the end of setup_experiment: the join left out, the function
\* returns while the preview thread may still run.
SetupReturn_no_join ==
    /\ setup_pc = "join"
    /\ setup_result' = IF continue_experiment THEN "True" ELSE "False"
    /\ setup_pc' = "returned"
    /\ UNCHANGED <<deviceHist, sharedVars, camVars, acqVars, saveVars, guiVars, coordVars,
                   histVars, argVars, continue_experiment, offsetVars>>

\* setup.py lines 161-170: result &= continue_experiment; the join returns once the
\* preview thread has ended; return result.
SetupReturn ==
    /\ setup_pc = "join"
    /\ ~acquire_images_thread_is_alive
    /\ setup_result' = IF continue_experiment THEN "True" ELSE "False"
    /\ setup_pc' = "returned"
    /\ UNCHANGED <<deviceHist,
                   sharedVars, camVars, acqVars, saveVars, guiVars, coordVars, histVars,
                   argVars, continue_experiment, offsetVars>>

\* --------------------------------------------------------- specifications
AcqStep ==
    \/ AcqSetTriggerMode
    \/ AcqBeginAcquisition
    \/ AcqCheckStop
    \/ \E kind \in {"timeout", "error"} : AcqGetNextImageException(kind)
    \/ \E id \in NextIds, incomplete \in BOOLEAN :
          device_frames < MaxFrames /\ AcqGetNextImage(id, incomplete)
    \/ \E id \in NextIds : device_frames < MaxFrames /\ AcqImageError(id)
    \/ AcqEndAcquisition

SaveStep ==
    \/ \E fault \in {"none", "SpinnakerException", "Exception"} : SaveOpen(fault)
    \/ SaveCheckQueue
    \/ \E fault \in {"none", "SpinnakerException", "Exception"} : SavePopWrite(fault)
    \/ \E fault \in {"none", "ChunkData", "Exception"} : SaveWriteRow(fault)
    \/ SaveUpdate
    \/ SaveIdle
    \/ SaveClose

GuiStep ==
    \/ GuiUpdateVideoCheck
    \/ GuiUpdateVideo
    \/ GuiCloseGui

CoordCliStep ==
    \/ CoordEnableChunkData
    \/ CoordStartAcquire
    \/ CoordStartSave
    \/ CoordReturn

CoordStep ==
    \/ CoordCliStep
    \/ CoordStartGui

Next ==
    \/ AcqStep
    \/ SaveStep
    \/ GuiStep
    \/ CoordStep
    \/ CoordKeyboardInterrupt

Spec == Init /\ [][Next]_vars

\* The threads are scheduled by the operating system: each keeps taking steps while
\* it has one to take.  The user (Ctrl-C, the GUI's buttons) is under no obligation.
FairSpec ==
    /\ Spec
    /\ WF_vars(AcqStep)
    /\ WF_vars(SaveStep)
    /\ WF_vars(CoordStep)

\* run_experiment_cli alone, with the same scheduling.
CliInit == Init /\ use_gui = FALSE

CliNext ==
    \/ AcqStep
    \/ SaveStep
    \/ CoordCliStep
    \/ CoordKeyboardInterrupt

CliSpec == CliInit /\ [][CliNext]_vars

FairCliSpec ==
    /\ CliSpec
    /\ WF_vars(AcqStep)
    /\ WF_vars(SaveStep)
    /\ WF_vars(CoordCliStep)

\* run_experiment_gui alone.  The display thread's timer (update_video) fires on
\* its own; pressing Stop or closing the window is up to the user.
GuiInit == Init /\ use_gui = TRUE

GuiSpec == GuiInit /\ [][Next]_vars

FairGuiSpec ==
    /\ GuiSpec
    /\ WF_vars(AcqStep)
    /\ WF_vars(SaveStep)
    /\ WF_vars(CoordStep)
    /\ WF_vars(GuiUpdateVideoCheck \/ GuiUpdateVideo)

\* ------------------------------------------------------ the setup phase
\* setup_experiment on a camera at rest, before run_experiment_* is called: nothing
\* of the recording exists yet.
SetupInit ==
    /\ acquisition_complete_event = FALSE
    /\ images_queue = <<>>
    /\ display_image_queue = <<>>
    /\ use_gui = FALSE
    /\ camera_acquiring_flag = FALSE
    /\ cam_streaming = FALSE
    /\ trigger_mode = "unset"
    /\ chunk_data = FALSE
    /\ device_next_id = 0
    /\ device_frames = 0
    /\ acq_pc = "unstarted"
    /\ acq_result = "pending"
    /\ save_pc = "unstarted"
    /\ save_result = "pending"
    /\ new_image = NoImage
    /\ frame_counter = FrameCounter_init
    /\ video = <<>>
    /\ video_open = FALSE
    /\ log = <<>>
    /\ log_open = FALSE
    /\ gui_pc = "unstarted"
    /\ shown = NoSample
    /\ coord_pc = "setup"
    /\ run_result = "pending"
    /\ enqueued = <<>>
    /\ queue_at_stop = <<>>
    /\ delivered_at_stop = 0
    /\ update_ids = <<>>
    /\ depth_at_pop = 0
    /\ last_fetch = "none"
    /\ incomplete_ids = {}
    /\ end_acquisition_called = FALSE
    /\ popped = <<>>
    /\ chunk_data_error = FALSE
    /\ images_queue_maxlen = None
    /\ acq_camera_trigger_mode = FALSE
    /\ setup_pc = "start"
    /\ continue_experiment = FALSE
    /\ setup_result = "pending"
    /\ OffsetX = NodeAtRest
    /\ OffsetY = NodeAtRest
    /\ desired_offsetx = 0
    /\ desired_offsety = 0
    /\ new_offsetx = 0
    /\ new_offsety = 0
    /\ offset_written_acquiring = FALSE
    /\ unguarded_device_call = FALSE

\* The preview thread: acquire_images, fed consecutive complete frames.
SetupAcqStep ==
    \/ AcqSetTriggerMode
    \/ AcqBeginAcquisition
    \/ AcqCheckStop
    \/ AcqGetNextImageException("timeout")
    \/ device_frames < MaxPreviewFrames /\ AcqGetNextImage(device_next_id, FALSE)
    \/ device_frames < MaxPreviewFrames /\ AcqImageError(device_next_id)
    \/ AcqEndAcquisition

\* The main thread: setup_experiment and the callbacks of its window.
SetupGuiStep ==
    \/ SetupStartAcquire
    \/ SetupUpdateVideoCheck
    \/ SetupUpdateVideoPop
    \/ \E offsetx_delta \in ClickDeltas : SetupMouseClick(offsetx_delta, 0)
    \/ SetupSelectOffsets
    \/ \E writable \in BOOLEAN : SetupWriteOffsetX(writable)
    \/ \E writable \in BOOLEAN : SetupWriteOffsetY(writable)
    \/ SetupOffsetBegin
    \/ \E begin \in BOOLEAN : SetupCloseGui(begin)
    \/ SetupDestroy
    \/ SetupReturn

SetupNext ==
    \/ SetupAcqStep
    \/ SetupGuiStep

SetupSpec == SetupInit /\ [][SetupNext]_vars

\* ------------------------------- the recording when chunk data may stay off
\* Lines 399-400 / 469-470 with camera.py lines 253-297: enable_chunk_data fails (a
\* node is not available or writable, or a SpinnakerException is caught).  The
\* result False is assigned but not returned, and a returned False is only printed:
\* the coordinator goes on to start the threads with chunk data off.
CoordEnableChunkDataFails ==
    /\ coord_pc = "enable_chunk_data"
    /\ coord_pc' = "start_acquire"
    /\ UNCHANGED <<sharedVars, camVars, acqVars, saveVars, guiVars, run_result,
                   histVars, argVars, setupVars, deviceHist>>

ChunkNext ==
    \/ Next
    \/ CoordEnableChunkDataFails

ChunkSpec == Init /\ [][ChunkNext]_vars

\* ------------------------------------- update_image_offset on any camera
\* The settings an OffsetX node can report: integers Min <= Max, Increment > 0 and
\* a Value on the node's grid.
OffsetNodes ==
    {node \in [Value : 0 .. MaxOffset, Min : 0 .. 1, Max : 0 .. MaxOffset,
               Increment : 1 .. MaxIncrement] :
        /\ node.Min <= node.Value
        /\ node.Value <= node.Max
        /\ (node.Value - node.Min) % node.Increment = 0}

\* The setup phase on a camera with any such OffsetX node.
OffsetInit ==
    \E node \in OffsetNodes :
        /\ OffsetX = node
        /\ OffsetY = NodeAtRest
        /\ acquisition_complete_event = FALSE
        /\ images_queue = <<>>
        /\ display_image_queue = <<>>
        /\ use_gui = FALSE
        /\ camera_acquiring_flag = FALSE
        /\ cam_streaming = FALSE
        /\ trigger_mode = "unset"
        /\ chunk_data = FALSE
        /\ device_next_id = 0
        /\ device_frames = 0
        /\ acq_pc = "unstarted"
        /\ acq_result = "pending"
        /\ save_pc = "unstarted"
        /\ save_result = "pending"
        /\ new_image = NoImage
        /\ frame_counter = FrameCounter_init
        /\ video = <<>>
        /\ video_open = FALSE
        /\ log = <<>>
        /\ log_open = FALSE
        /\ gui_pc = "unstarted"
        /\ shown = NoSample
        /\ coord_pc = "setup"
        /\ run_result = "pending"
        /\ enqueued = <<>>
        /\ queue_at_stop = <<>>
        /\ delivered_at_stop = 0
        /\ update_ids = <<>>
        /\ depth_at_pop = 0
        /\ last_fetch = "none"
        /\ incomplete_ids = {}
        /\ end_acquisition_called = FALSE
        /\ popped = <<>>
        /\ chunk_data_error = FALSE
        /\ images_queue_maxlen = None
        /\ acq_camera_trigger_mode = FALSE
        /\ setup_pc = "start"
        /\ continue_experiment = FALSE
        /\ setup_result = "pending"
        /\ desired_offsetx = 0
        /\ desired_offsety = 0
        /\ new_offsetx = 0
        /\ new_offsety = 0
        /\ offset_written_acquiring = FALSE
        /\ unguarded_device_call = FALSE

\* The preview thread starts the camera and polls it; the user clicks.
OffsetNext ==
    \/ SetupStartAcquire
    \/ AcqSetTriggerMode
    \/ AcqBeginAcquisition
    \/ AcqCheckStop
    \/ AcqGetNextImageException("timeout")
    \/ \E offsetx_delta \in (0 - MaxDelta) .. MaxDelta : SetupMouseClick(offsetx_delta, 0)
    \/ SetupSelectOffsets
    \/ \E writable \in BOOLEAN : SetupWriteOffsetX(writable)
    \/ \E writable \in BOOLEAN : SetupWriteOffsetY(writable)
    \/ SetupOffsetBegin

OffsetSpec == OffsetInit /\ [][OffsetNext]_vars

\* ------------------------------------------- either phase of the program
\* A run of the setup phase or a run of the recording: the steps of one phase are
\* taken only in a run of that phase.
ProgramInit == Init \/ SetupInit

ProgramNext ==
    \/ setup_pc = "returned" /\ Next
    \/ setup_pc # "returned" /\ SetupNext

ProgramSpec == ProgramInit /\ [][ProgramNext]_vars

\* --------------------------------------------- the ledger on its own
\* FrameCounter.update called with any queue length and any frame id.
LedgerUpdate(image_queue_length, frameid) ==
    /\ Len(update_ids) < MaxUpdates
    /\ frame_counter' = FrameCounter_update(frame_counter, image_queue_length, frameid)
    /\ update_ids' = Append(update_ids, frameid)
    /\ UNCHANGED <<sharedVars, camVars, acqVars, save_pc, save_result, new_image, video,
                   video_open, log, log_open, guiVars, coordVars, enqueued,
                   stopHist, depth_at_pop, acqHist,
                   popped, chunk_data_error>>
    /\ UNCHANGED <<argVars, setupVars, deviceHist>>

LedgerInit == Init /\ use_gui = FALSE

LedgerNext ==
    \E image_queue_length \in 0 .. MaxQueueLen, frameid \in 0 .. MaxLedgerId :
        LedgerUpdate(image_queue_length, frameid)

LedgerSpec == LedgerInit /\ [][LedgerNext]_vars

\* ------------------------------------- the end-to-end scenario of the spec
\* The capture source delivers exactly these frame ids, all valid, then only
\* timeouts; nothing fails; run_experiment_cli.
E2EFeed == <<1, 2, 4, 5, 7>>

E2EInit == Init /\ use_gui = FALSE

E2ENext ==
    \/ AcqSetTriggerMode
    \/ AcqBeginAcquisition
    \/ AcqCheckStop
    \/ AcqGetNextImageException("timeout")
    \/ /\ device_frames < Len(E2EFeed)
       /\ AcqGetNextImage(E2EFeed[device_frames + 1], FALSE)
    \/ AcqEndAcquisition
    \/ SaveOpen("none")
    \/ SaveCheckQueue
    \/ SavePopWrite("none")
    \/ SaveWriteRow("none")
    \/ SaveUpdate
    \/ SaveIdle
    \/ SaveClose
    \/ CoordEnableChunkData
    \/ CoordStartAcquire
    \/ CoordStartSave
    \/ CoordReturn
    \/ CoordKeyboardInterrupt

E2ESpec == E2EInit /\ [][E2ENext]_vars

\* ------------------------------------------------------------------ claims
StrictlyIncreasing(s) == \A i \in 1 .. Len(s) - 1 : s[i] < s[i + 1]
NonDecreasing(s) == \A i \in 1 .. Len(s) - 1 : s[i] <= s[i + 1]
NoGaps(s) == \A i \in 1 .. Len(s) - 1 : s[i + 1] = s[i] + 1
IsPrefix(s, t) == Len(s) <= Len(t) /\ SubSeq(t, 1, Len(s)) = s

\* sum over i in 2..n of (s[i] - s[i-1] - 1)
RECURSIVE SumGaps(_)
SumGaps(s) ==
    IF Len(s) < 2
    THEN 0
    ELSE SumGaps(SubSeq(s, 1, Len(s) - 1)) + (s[Len(s)] - s[Len(s) - 1] - 1)

\* save_images returned through line 265 after its loop ended at the break.
SaveTerminatedNormally == save_pc = "done" /\ save_result = "True"

\* C1: drain on shutdown.  When the Storage Stage has terminated normally, every
\* frame that was in the transfer queue at the moment the stop signal was set has
\* been written to the video sink.
C1_DrainOnShutdown ==
    SaveTerminatedNormally =>
        \A i \in 1 .. Len(queue_at_stop) :
            \E j \in 1 .. Len(video) : video[j] = queue_at_stop[i]

\* C2: for a strictly increasing sequence of frame ids passed to update on a fresh
\* ledger, acquired is the number of updates and dropped is the sum of the id gaps.
C2_LedgerSum ==
    StrictlyIncreasing(update_ids) =>
        /\ frame_counter.acquired = Len(update_ids)
        /\ frame_counter.dropped = SumGaps(update_ids)

C2_Witness ==
    /\ Len(update_ids) >= 3
    /\ StrictlyIncreasing(update_ids)
    /\ update_ids[2] > update_ids[1] + 1
    /\ frame_counter.dropped > 0

\* C3: FIFO hand-off.  The frames written by the Storage Stage are, in order, the
\* first frames the Acquisition Stage enqueued; the frame ids given to the ledger are
\* theirs, in that order, and are non-decreasing, and last_frameid is the last of them.
C3_FIFO ==
    /\ IsPrefix(video, enqueued)
    /\ Len(update_ids) <= Len(video)
    /\ \A i \in 1 .. Len(update_ids) : update_ids[i] = enqueued[i].frame_id
    /\ NonDecreasing(update_ids)
    /\ Len(update_ids) > 0 =>
          frame_counter.last_frameid = <<update_ids[Len(update_ids)]>>

C3_Witness ==
    /\ Len(update_ids) >= 2
    /\ Len(images_queue) >= 1
    /\ update_ids[2] > update_ids[1] + 1

\* A write of lines 224-228 failed: save_images is over, not through its normal
\* exit, with both files opened (and so never closed).
StorageWriteFailed ==
    save_pc = "done" /\ save_result # "True" /\ video_open /\ log_open

\* C4: on a storage write failure the Storage Stage returns failure, and the
\* Coordinator's run result reflects the failure.
C4_WriteFailureReported ==
    StorageWriteFailed =>
        /\ save_result = "False"
        /\ coord_pc = "returned" => run_result = "Err"

\* C5: the Coordinator's run returns a definite outcome, Ok or Err, and Ok only if
\* neither stage reported a fatal error.
C5_RunOutcome ==
    coord_pc = "returned" =>
        /\ run_result \in {"Ok", "Err"}
        /\ run_result = "Ok" => (acq_result = "True" /\ save_result = "True")

C7_EndToEnd ==
    (coord_pc = "returned" /\ delivered_at_stop = Len(E2EFeed)) =>
        /\ frame_counter.acquired = 5
        /\ frame_counter.dropped = 2

\* C8: the first frame processed by a fresh ledger adds nothing to dropped, whatever
\* its id: after it dropped = 0, acquired = 1 and last_frameid is that id.
C8_FirstFrame ==
    Len(update_ids) = 1 =>
        /\ frame_counter.dropped = 0
        /\ frame_counter.acquired = 1
        /\ frame_counter.last_frameid = <<update_ids[1]>>

C8_Witness ==
    /\ Len(update_ids) = 1
    /\ update_ids[1] = MaxLedgerId
    /\ frame_counter.acquired = 1

\* C9: while every processed id is one more than the previous one, dropped is 0.
C9_NoGapsNoDrops ==
    NoGaps(update_ids) => frame_counter.dropped = 0

C9_Witness ==
    /\ Len(update_ids) >= 3
    /\ NoGaps(update_ids)
    /\ frame_counter.acquired = Len(update_ids)

\* C10 as stated: with non-decreasing frame ids, dropped is never negative.
C10_NonDecreasingIds ==
    NonDecreasing(update_ids) => frame_counter.dropped >= 0

\* C10 amended: with strictly increasing frame ids, every update leaves dropped at
\* least what it was, and never negative.
C10_StrictlyIncreasingIds ==
    [][StrictlyIncreasing(update_ids') =>
          /\ frame_counter'.dropped >= frame_counter.dropped
          /\ frame_counter'.dropped >= 0]_vars

C10_Witness ==
    /\ Len(update_ids) >= 2
    /\ StrictlyIncreasing(update_ids)
    /\ frame_counter.dropped >= 2

\* A frame has been processed and the storage stage is back at the top of its loop.
FrameProcessed == save_pc = "check" /\ Len(update_ids) >= 1

\* C11 as stated: after a frame is processed, buffered is the number of frames that
\* were left in the transfer queue right after that frame was popped.
C11_BufferedAtPop ==
    FrameProcessed => frame_counter.buffered = depth_at_pop

\* C11 amended: buffered is the transfer-queue depth read at the frame's ledger
\* update (after its video and log writes), overwritten on every update; it is at
\* least the depth right after the pop.
C11_BufferedAtUpdate ==
    /\ [][(save_pc = "update" /\ save_pc' = "check") =>
              frame_counter'.buffered = Len(images_queue')]_vars
    /\ [](FrameProcessed => frame_counter.buffered >= depth_at_pop)

C11_Witness ==
    /\ FrameProcessed
    /\ Len(update_ids) >= 2
    /\ frame_counter.buffered > depth_at_pop

\* C12: the display queue never holds more than one item, and the item it holds is
\* the sample of the most recently processed frame: a push onto the full queue
\* evicted the older sample, so after two pushes only the second can be retrieved.
C12_DisplayNewestWins ==
    /\ Len(display_image_queue) <= 1
    /\ display_image_queue # <<>> =>
          /\ display_image_queue[1].acquired_counter = frame_counter.acquired
          /\ display_image_queue[1].image = update_ids[Len(update_ids)]

\* Two samples were pushed and none was retrieved: the queue holds the second.
C12_Witness ==
    /\ use_gui
    /\ shown = NoSample
    /\ Len(update_ids) = 2
    /\ Len(display_image_queue) = 1
    /\ display_image_queue[1].acquired_counter = 2

\* acquire_images has returned (with either result).
AcquireReturned == acq_pc = "done"

\* C13: on every path on which acquire_images returns, after a normal stop or after
\* a device error, camera.end_acquisition() has been called and the camera is no
\* longer acquiring.
C13_EndOnEveryReturn ==
    AcquireReturned => (end_acquisition_called /\ ~camera_acquiring_flag)

\* C14: every iteration reads the stop signal first: once it is set the loop starts
\* no new GetNextImage call, the call in flight (if any) still finishes and its
\* valid frame is enqueued, so at most one frame joins the queue after the stop;
\* under weak fairness the stage then returns.
C14_CooperativeCancellation ==
    /\ [][(acquisition_complete_event /\ acq_pc = "loop") => acq_pc' # "fetch"]_vars
    /\ [][(acquisition_complete_event /\ acq_pc = "fetch" /\ acq_pc' # "fetch") =>
              (acq_pc' \in {"loop", "done"} /\ Len(enqueued') <= Len(enqueued) + 1)]_vars
    /\ [](acquisition_complete_event => Len(enqueued) <= delivered_at_stop + 1)
    /\ (acquisition_complete_event ~> AcquireReturned)

\* The call in flight when the stop was set delivered a valid frame, then the stage
\* returned.
C14_Witness ==
    /\ acquisition_complete_event
    /\ acq_pc = "done"
    /\ acq_result = "True"
    /\ Len(enqueued) = delivered_at_stop + 1

\* C15: a GetNextImage timeout is not an error: the step that handles it leaves the
\* stage at the top of its loop, where the stop signal is read next, enqueues
\* nothing and keeps the result; a stage that returns after a timeout returns True.
C15_TimeoutNotError ==
    /\ [][(acq_pc = "fetch" /\ acq_pc' # "fetch" /\ last_fetch' = "timeout") =>
              /\ acq_pc' = "loop"
              /\ images_queue' = images_queue
              /\ enqueued' = enqueued
              /\ acq_result' = acq_result]_vars
    /\ []((AcquireReturned /\ last_fetch = "timeout") => acq_result = "True")

\* The stage met nothing but timeouts and returned True.
C15_Witness ==
    /\ AcquireReturned
    /\ acq_result = "True"
    /\ last_fetch = "timeout"
    /\ device_frames = 0
    /\ enqueued = <<>>

\* C16: a device error raised by GetNextImage that is not the timeout is not
\* retried: once it has happened the stage has returned, reporting failure.
C16_FetchErrorFatal ==
    last_fetch = "error" => (AcquireReturned /\ acq_result = "False")

\* The frames of a sequence are complete and none has an id flagged incomplete.
NoIncompleteIn(frames) ==
    \A i \in 1 .. Len(frames) :
        /\ ~frames[i].incomplete
        /\ frames[i].frame_id \notin incomplete_ids

\* C17: an incomplete frame is never appended to the transfer queue, so it is in
\* neither the video nor the log; the step that meets it enqueues nothing and
\* leaves the stage at the top of its loop.
C17_IncompleteDiscarded ==
    /\ [](NoIncompleteIn(enqueued) /\ NoIncompleteIn(images_queue) /\ NoIncompleteIn(video))
    /\ [](\A i \in 1 .. Len(log) : log[i][1] \notin incomplete_ids)
    /\ [][(acq_pc = "fetch" /\ acq_pc' # "fetch" /\ last_fetch' = "incomplete") =>
              /\ acq_pc' = "loop"
              /\ images_queue' = images_queue
              /\ acq_result' = acq_result]_vars

\* An incomplete frame arrived between two valid frames that were both written.
C17_Witness ==
    /\ incomplete_ids # {}
    /\ Len(video) >= 2
    /\ Len(log) >= 2
    /\ \E k \in incomplete_ids : log[1][1] < k /\ k < log[2][1]

\* The ids passed to the ledger, and the ids between the first and the last of them.
ProcessedIds == {update_ids[i] : i \in 1 .. Len(update_ids)}
IdsBetween ==
    IF update_ids = <<>>
    THEN {}
    ELSE (update_ids[1] + 1) .. (update_ids[Len(update_ids)] - 1)

StorageFatalExit == save_pc = "done" /\ save_result # "True"

\* C19: when the storage stage exits on a fatal error the stop signal is set.
C19_StorageFailureStops ==
    StorageFatalExit => acquisition_complete_event

\* C20: the video file and the csv file are opened before the loop and each is
\* closed on every exit path of save_images, the error exits included.
C20_SinksFinalized ==
    save_pc = "done" => (~video_open /\ ~log_open)

\* C21: the storage stage leaves its loop only from the branch it enters on finding
\* the queue empty, and only with the stop signal set; an empty queue with the
\* signal clear sends it back to the queue test; it returns True only after that.
C21_StopOnlyWhenEmptyAndSet ==
    /\ [][(save_pc # "idle" /\ save_pc' = "idle") =>
              (save_pc = "check" /\ Len(images_queue) = 0)]_vars
    /\ [][(save_pc # "close" /\ save_pc' = "close") =>
              (save_pc = "idle" /\ acquisition_complete_event)]_vars
    /\ [][(save_pc = "idle" /\ ~acquisition_complete_event) =>
              save_pc' \in {"idle", "check"}]_vars
    /\ [][(save_result # "True" /\ save_result' = "True") => save_pc = "close"]_vars
    /\ [](SaveTerminatedNormally => acquisition_complete_event)

\* The stage processed a frame, later found the queue empty and the signal set, and
\* returned True with the queue empty.
C21_Witness ==
    /\ SaveTerminatedNormally
    /\ Len(update_ids) >= 1
    /\ images_queue = <<>>

\* C22: the frames enqueued are, in order, the frames popped followed by the frames
\* in the queue: the counts add up, nothing is lost and no frame is popped twice.
C22_Conservation ==
    /\ Len(enqueued) = Len(popped) + Len(images_queue)
    /\ enqueued = popped \o images_queue
    /\ \A i, j \in 1 .. Len(popped) : popped[i] = popped[j] => i = j

\* Two frames have been popped, a third waits in the queue and the storage stage is
\* in the middle of an iteration.
C22_Witness ==
    /\ Len(popped) >= 2
    /\ Len(images_queue) >= 1
    /\ save_pc \in {"meta", "update"}

\* C23: the transfer queue is unbounded: while the camera streams, the append of a
\* fetched frame is enabled at every queue depth, and every append leaves the
\* frames already queued in place, adding the new one at the end.
C23_UnboundedQueue ==
    /\ []((acq_pc = "fetch" /\ cam_streaming) =>
              ENABLED AcqGetNextImage(device_next_id, FALSE))
    /\ [][Len(enqueued') > Len(enqueued) =>
              images_queue' = images_queue \o <<enqueued'[Len(enqueued')]>>]_vars

\* Every frame the device delivered is in the queue, none was evicted.
C23_Witness ==
    /\ Len(images_queue) = MaxFrames
    /\ images_queue = enqueued
    /\ acq_pc = "fetch"

\* The storage stage is between two iterations of its loop, or has returned True.
BetweenIterations ==
    save_pc \in {"check", "idle", "pop", "close"} \/ SaveTerminatedNormally

\* C24: every popped frame gets one video write, then one log row with its frame id
\* and timestamp, then the ledger update: the video is at most one frame ahead of
\* the log, the k-th row is that of the k-th video frame, acquired is at most one
\* behind the log, and between iterations the three counts are equal.
C24_PairedPersistence ==
    /\ IsPrefix(video, popped)
    /\ Len(popped) - Len(video) \in {0, 1}
    /\ Len(video) - Len(log) \in {0, 1}
    /\ \A k \in 1 .. Len(log) : log[k] = <<video[k].frame_id, video[k].timestamp>>
    /\ Len(log) - frame_counter.acquired \in {0, 1}
    /\ BetweenIterations =>
          /\ Len(video) = Len(log)
          /\ frame_counter.acquired = Len(log)

\* The third frame is in the video and its row is not yet in the log.
C24_Witness ==
    /\ save_pc = "meta"
    /\ Len(video) = 3
    /\ Len(log) = 2
    /\ frame_counter.acquired = 2

\* C25: the ledger is changed by storage steps only: acquisition, coordinator and
\* GUI steps leave it as it is; the stop signal is written by the coordinator's
\* KeyboardInterrupt handler and the GUI's close only, never by the acquisition or
\* the storage stage.  A step belongs to the thread whose position it changes (for
\* the GUI, also the sample on screen).
C25_Ownership ==
    /\ [][frame_counter' # frame_counter =>
              /\ save_pc' # save_pc
              /\ UNCHANGED <<acqVars, camVars, guiVars, coordVars,
                             acquisition_complete_event>>]_vars
    /\ [][(acq_pc' # acq_pc \/ coord_pc' # coord_pc \/ gui_pc' # gui_pc
            \/ shown' # shown) => frame_counter' = frame_counter]_vars
    /\ [][(acq_pc' # acq_pc \/ save_pc' # save_pc) =>
              acquisition_complete_event' = acquisition_complete_event]_vars
    /\ [][acquisition_complete_event' # acquisition_complete_event =>
              (gui_pc' # gui_pc \/ coord_pc = "join")]_vars

\* Both stages have returned, the ledger has counted frames and the signal is set.
C25_Witness ==
    /\ acquisition_complete_event
    /\ acq_pc = "done"
    /\ SaveTerminatedNormally
    /\ frame_counter.acquired >= 2

\* What the recording consists of: the transfer queue, the stop signal and the
\* storage stage's own state, display queue and GUI left out.
recordingVars == <<images_queue, acquisition_complete_event, saveVars>>

TriggerModeApplied == acq_pc \notin {"unstarted", "trigger"}

C28_ChunkFailureReported ==
    chunk_data_error => (save_pc = "done" /\ save_result = "False")

\* A published sample carries the ledger as it was after the update for its frame:
\* its frame is the acquired_counter-th frame written, and its dropped counter is
\* the sum of the gaps up to that frame.
SnapshotOfItsFrame(sample) ==
    /\ sample.acquired_counter \in 1 .. Len(update_ids)
    /\ sample.acquired_counter <= Len(log)
    /\ sample.image = video[sample.acquired_counter].frame_id
    /\ sample.image = update_ids[sample.acquired_counter]
    /\ sample.dropped_counter = SumGaps(SubSeq(update_ids, 1, sample.acquired_counter))

\* C29: every sample in the display queue or on screen is the ledger snapshot of
\* its own frame, the newest one counting every frame written so far; the
\* acquired and dropped values the display consumer sees never decrease.
C29_DisplaySnapshots ==
    /\ [](\A i \in 1 .. Len(display_image_queue) :
              /\ SnapshotOfItsFrame(display_image_queue[i])
              /\ display_image_queue[i].acquired_counter = Len(update_ids))
    /\ [](shown # NoSample => SnapshotOfItsFrame(shown))
    /\ [][/\ shown'.acquired_counter >= shown.acquired_counter
           /\ shown'.dropped_counter >= shown.dropped_counter]_vars

\* The consumer has shown the first frame's sample and missed the second; the
\* third frame's sample, with a drop counted, waits in the queue.
C29_Witness ==
    /\ shown # NoSample
    /\ shown.acquired_counter = 1
    /\ Len(display_image_queue) = 1
    /\ display_image_queue[1].acquired_counter = 3
    /\ display_image_queue[1].dropped_counter >= 1

\* C30: after every update following the first, for any sequence of ids (gaps,
\* repeats and decreases included), acquired + dropped is the last id minus the
\* first id plus one.
C30_Telescoping ==
    Len(update_ids) >= 2 =>
        /\ frame_counter.last_frameid = <<update_ids[Len(update_ids)]>>
        /\ frame_counter.acquired + frame_counter.dropped =
              frame_counter.last_frameid[1] - update_ids[1] + 1

\* Three updates whose ids repeat and then decrease: dropped is negative.
C30_Witness ==
    /\ Len(update_ids) = 3
    /\ update_ids[2] = update_ids[1]
    /\ update_ids[3] < update_ids[2]
    /\ frame_counter.dropped < 0

\* C31: in a graceful shutdown (both stages returned True), once both stages have
\* terminated the transfer queue is empty and every frame ever enqueued has been
\* written to the video sink.
C31_QuiescentDrain ==
    (AcquireReturned /\ acq_result = "True" /\ SaveTerminatedNormally) =>
        /\ images_queue = <<>>
        /\ \A i \in 1 .. Len(enqueued) :
              \E j \in 1 .. Len(video) : video[j] = enqueued[i]

\* C32: no consumer pops from an empty queue.  Between a consumer's test
\* len(queue) > 0 and its popleft the queue holds at least one item, whatever the
\* other threads do in between: the storage stage on the transfer queue, AcquireGui
\* on the display queue (capacity 1), SetupGUI on the preview queue (capacity 10).
C32_NoPopFromEmpty ==
    /\ save_pc = "pop" => Len(images_queue) > 0
    /\ gui_pc = "pop" => Len(display_image_queue) > 0
    /\ setup_pc = "pop" => Len(images_queue) > 0

\* SetupGUI has tested the preview queue and not yet popped; the queue is full and
\* the acquisition thread has already pushed frames out of it.
C32_Witness ==
    /\ setup_pc = "pop"
    /\ Len(images_queue) = PreviewMaxlen
    /\ Len(enqueued) > PreviewMaxlen

\* C33: the stop signal is monotonic within a run: unset at the start, and no step
\* of any thread (acquisition, storage, either GUI, either coordinator) clears it
\* once it is set.
C33_StopMonotonic ==
    /\ (setup_pc = "start" \/ coord_pc = "enable_chunk_data") =>
          ~acquisition_complete_event
    /\ [][acquisition_complete_event => acquisition_complete_event']_vars

\* The signal was set while frames were in flight and is still set after every
\* thread of the recording has ended and the coordinator has returned.
C33_Witness ==
    /\ acquisition_complete_event
    /\ coord_pc = "returned"
    /\ use_gui
    /\ Len(video) >= 1

\* C34: in GUI mode, once the stop signal is set, by the Stop button, the window's
\* close box or a KeyboardInterrupt in the coordinator, the three threads end and
\* run_experiment_gui returns, with no further action of the user.
C34_GuiShutdown ==
    (use_gui /\ acquisition_complete_event) ~>
        (~threads_alive /\ coord_pc = "returned")

\* A step that is a call of Camera.begin_acquisition: line 110 of acquire_images or
\* the last line of update_image_offset.
BeginAcquisitionCall ==
    \/ (acq_pc = "begin" /\ acq_pc' # acq_pc)
    \/ (setup_pc = "offset_begin" /\ setup_pc' # setup_pc)

\* A step that is a call of Camera.end_acquisition: line 143 of acquire_images or
\* the first line of update_image_offset.
EndAcquisitionCall ==
    \/ (acq_pc = "end" /\ acq_pc' # acq_pc)
    \/ (setup_pc = "mainloop" /\ setup_pc' = "offset_select")

C36_OffsetsWrittenAtRest ==
    /\ [][~offset_written_acquiring']_vars
    /\ [][(setup_pc = "offset_begin" /\ setup_pc' = "mainloop") =>
              camera_acquiring_flag']_vars

\* The values an offset node accepts: Min, Min + Increment, ..., up to and
\* including Max.
ViableOffsets(node) ==
    {v \in node.Min .. node.Max : (v - node.Min) % node.Increment = 0}

\* C37: update_image_offset chooses, for integers Min <= Max, Increment > 0 and any
\* delta, a member of {Min, Min + Increment, ..., up to and including Max} at the
\* smallest absolute distance from the current value plus delta.
C37_ClosestViableOffset ==
    setup_pc = "offset_write_x" =>
        /\ new_offsetx \in ViableOffsets(OffsetX)
        /\ \A v \in ViableOffsets(OffsetX) :
              Abs(new_offsetx - desired_offsetx) <= Abs(v - desired_offsetx)

\* C38: chunk data is enabled before any thread of the recording is started and
\* disabled only after all of them have ended: while a thread is alive, and so
\* whenever a frame is fetched or its frame id and timestamp are read, chunk data
\* is on.
C38_ChunkDataBracketsRun ==
    /\ threads_alive => chunk_data
    /\ acq_pc = "fetch" => chunk_data
    /\ save_pc = "meta" => chunk_data
    /\ (coord_pc = "returned" /\ ~chunk_data) => ~threads_alive

====
